---- MODULE Spec2Model ----
(***************************************************************************)
(* A model of ceph::net::Socket (src/crimson/net/Socket.{h,cc}): one       *)
(* connection handle over a seastar connected_socket, its input_stream     *)
(* `in` and its output_stream `out`.                                       *)
(*                                                                         *)
(* The handle's own code (read, read_exactly, bufferlist_consumer, write,  *)
(* flush, write_flush, shutdown, close, close_and_handle_errors, accept    *)
(* and the destructor) is translated from the source.  The seastar         *)
(* streams it drives are the                                               *)
(* environment: chunked delivery, the exact-count primitive, the buffered  *)
(* output path and the outcome of each resource release are modelled at    *)
(* the boundary the handle sees, with every outcome the transport may      *)
(* produce left as a nondeterministic choice.                              *)
(*                                                                         *)
(* The build modelled is the checked one (NDEBUG not defined): the         *)
(* lifecycle flags `down` and `closed` exist and the assertions fire.      *)
(***************************************************************************)
EXTENDS Integers, Sequences, FiniteSets, TLC

\* ------------------------------------------------------------------ bounds
\* Longest byte sequence the peer sends on the connection.
MaxLen == 3
\* Largest byte count a read or read_exactly asks for.
MaxN == 3
\* Number of distinct byte values.
NumBytes == 2

\* Number of write calls (write or write_flush) issued on the handle.
MaxWrites == 3
\* The output stream's buffer size, counted in packets: a write that fills
\* the buffer hands it to the transport and waits for that to finish.
OutBufSize == 2
\* Longest byte sequence the peer sends where both sides of the handle are
\* run together.
IOLen == 1

\* Number of distinct hosts and of distinct ports a peer connects from, and
\* the most connections pending on a listener.
NumHosts == 2
NumPorts == 2
MaxPending == 2

Bytes == 1..NumBytes

\* ------------------------------------------------------------- sequences
Min(a, b) == IF a <= b THEN a ELSE b

\* The first k elements of s, and what is left after them.
Take(s, k) == SubSeq(s, 1, Min(k, Len(s)))
Drop(s, k) == SubSeq(s, Min(k, Len(s)) + 1, Len(s))

\* All sequences over S of length at most n.
SeqsUpTo(S, n) == UNION {[1..k -> S] : k \in 0..n}

\* ------------------------------------------------------------- variables
VARIABLES
  wire,     \* bytes sent by the peer that the input stream has not fetched yet
  ibuf,     \* input_stream `in`: the chunk it retains between consumer calls
  ieof,     \* input_stream `in`: it has seen the end of the stream
  r,        \* Socket::r, the buffer state for read(): [buffer, remaining]
  rd,       \* the caller of read()/read_exactly() and the future it holds
  obuf,     \* output_stream `out`: packets enqueued and not yet handed on
  inflight, \* output_stream `out`: buffers being handed to the transport
  sent,     \* packets handed to the transport, in order
  nw,       \* number of write calls issued so far (the next packet is nw + 1)
  wr,       \* the callers of write_flush ("wf") and of write/flush ("w")
  cl,       \* the caller of close() and the two releases it waits for
  net,      \* the connection as the transport sees it: "up" or "reset"
  shutIn,   \* shutdown_input() has been called on the connected socket
  shutOut,  \* shutdown_output() has been called on the connected socket
  down,     \* Socket::down (debug flag)
  closed,   \* Socket::closed (debug flag)
  proc,     \* the process: "running", "assert_failed" (ceph_assert, assert),
            \* "aborted" (ceph_abort), or "destroyed": the handle has been
            \* destroyed and nothing more is done with it
  calls,    \* how often shutdown(), close() and each call they make on the
            \* transport and its streams were made
  listener, \* seastar::server_socket: the connections pending on it, in order
  accepted, \* what each accept() so far returned, in order
  rd2,      \* the caller of a read() issued while another read is in flight
  hist      \* the stream as the peer sent it (orig), whether every call
            \* the caller has taken so far was a successful read (clean),
            \* and while that is so the results of those reads, in order
            \* (taken), and the sum of their byte counts (asked)

vars == <<wire, ibuf, ieof, r, rd, obuf, inflight, sent, nw, wr, cl,
          net, shutIn, shutOut, down, closed, proc, calls,
          listener, accepted, rd2, hist>>

inVars == <<wire, ibuf, ieof>>
readVars == <<wire, ibuf, ieof, r, rd>>
outVars == <<obuf, inflight, sent, nw>>
writeVars == <<obuf, inflight, sent, nw, wr>>
lifeVars == <<net, shutIn, shutOut, down, closed, proc>>
acceptVars == <<listener, accepted>>
auxVars == <<calls, acceptVars, rd2, hist>>

\* ---------------------------------------------------------------- errors
\* Errors.h: the error codes the handle names.
read_eof == "read_eof"
broken_pipe == "broken_pipe"
connection_reset == "connection_reset"

\* ------------------------------------------------- bufferlist_consumer
\* What the consumer answers the stream: continue_consuming, or
\* stop_consuming with the unconsumed rest of the chunk.
ConsumerResult(bl, remaining, stop, rest) ==
  [bl |-> bl, remaining |-> remaining, stop |-> stop, rest |-> rest]

\* Mutant: the front branch appends the whole chunk instead of its first
\* `remaining` bytes.
bufferlist_consumer_whole(bl, remaining, data) ==
  IF remaining >= Len(data)
  THEN LET rem == remaining - Len(data) IN
       IF rem > 0
       THEN ConsumerResult(bl \o data, rem, FALSE, <<>>)
       ELSE ConsumerResult(bl \o data, rem, TRUE, <<>>)
  ELSE IF remaining > 0
       THEN ConsumerResult(bl \o data, 0, TRUE, Drop(data, remaining))
       ELSE ConsumerResult(bl, remaining, TRUE, data)

\* Mutant: the front branch leaves out data.trim_front(remaining) and gives
\* the whole chunk back.
bufferlist_consumer_notrim(bl, remaining, data) ==
  IF remaining >= Len(data)
  THEN LET rem == remaining - Len(data) IN
       IF rem > 0
       THEN ConsumerResult(bl \o data, rem, FALSE, <<>>)
       ELSE ConsumerResult(bl \o data, rem, TRUE, <<>>)
  ELSE IF remaining > 0
       THEN ConsumerResult(bl \o Take(data, remaining), 0, TRUE, data)
       ELSE ConsumerResult(bl, remaining, TRUE, data)

\* Mutant: the front branch signals completion with an empty buffer, so the
\* rest of the chunk is not given back to the stream.
bufferlist_consumer_droprest(bl, remaining, data) ==
  IF remaining >= Len(data)
  THEN LET rem == remaining - Len(data) IN
       IF rem > 0
       THEN ConsumerResult(bl \o data, rem, FALSE, <<>>)
       ELSE ConsumerResult(bl \o data, rem, TRUE, <<>>)
  ELSE IF remaining > 0
       THEN ConsumerResult(bl \o Take(data, remaining), 0, TRUE, <<>>)
       ELSE ConsumerResult(bl, remaining, TRUE, data)

\* Mutant: the whole-chunk branch appends the chunk but leaves out
\* remaining -= data.size().
bufferlist_consumer_nodecrement(bl, remaining, data) ==
  IF remaining >= Len(data)
  THEN IF remaining > 0
       THEN ConsumerResult(bl \o data, remaining, FALSE, <<>>)
       ELSE ConsumerResult(bl \o data, remaining, TRUE, <<>>)
  ELSE IF remaining > 0
       THEN ConsumerResult(bl \o Take(data, remaining), 0, TRUE,
                           Drop(data, remaining))
       ELSE ConsumerResult(bl, remaining, TRUE, data)

\* bufferlist_consumer::operator()(tmp_buf&& data), on the referenced
\* bufferlist bl and counter remaining.
bufferlist_consumer(bl, remaining, data) ==
  IF remaining >= Len(data)
  THEN \* consume the whole buffer
       LET rem == remaining - Len(data) IN
       IF rem > 0
       THEN ConsumerResult(bl \o data, rem, FALSE, <<>>)
       ELSE ConsumerResult(bl \o data, rem, TRUE, <<>>)
  ELSE IF remaining > 0
       THEN \* consume the front, give the rest back
            ConsumerResult(bl \o Take(data, remaining), 0, TRUE,
                           Drop(data, remaining))
       ELSE ConsumerResult(bl, remaining, TRUE, data)

\* ------------------------------------------------------------ the caller
\* The caller of read()/read_exactly(): where its call stands (pc), the call
\* (op, n), the outcome of the returned future (status, result), what the
\* stream's own future delivered to the handle's continuation (got, prim),
\* the bytes read_exactly has gathered (acc), and the undelivered bytes of
\* the stream when the call was made (snap).
Idle == [pc |-> "idle", op |-> "none", n |-> 0, status |-> "none",
         result |-> <<>>, got |-> "none", prim |-> <<>>, acc |-> <<>>,
         snap |-> <<>>, cut |-> FALSE]

\* A call that has returned: a ready or failed future.
Returned(op, n, status, result, got, prim, snap) ==
  [pc |-> "done", op |-> op, n |-> n, status |-> status, result |-> result,
   got |-> got, prim |-> prim, acc |-> <<>>, snap |-> snap, cut |-> rd.cut]

\* The bytes of the stream not yet delivered to any caller, in stream order.
Undelivered == ibuf \o wire

\* ------------------------------------------------------------ Socket::read
\* The continuation of in.consume() in Socket::read: throw on short reads,
\* else move the buffer out to the caller.
read_then(buffer, remaining) ==
  IF remaining # 0
  THEN [status |-> read_eof, result |-> <<>>, buffer |-> buffer]
  ELSE [status |-> "ok", result |-> buffer, buffer |-> <<>>]

\* Mutant: the early return for bytes == 0 is left out.
read_noearly(bytes) ==
  /\ proc = "running"
  /\ rd.pc = "idle"
  /\ r' = [buffer |-> <<>>, remaining |-> bytes]
  /\ rd' = [Idle EXCEPT !.pc = "consume", !.op = "read", !.n = bytes,
                        !.snap = Undelivered]
  /\ UNCHANGED <<inVars, writeVars, cl, lifeVars, auxVars>>

\* Socket::read(bytes): the early return for bytes == 0, else the reset of
\* the per-read state and the start of in.consume().
read(bytes) ==
  /\ proc = "running"
  /\ rd.pc = "idle"
  /\ IF bytes = 0
     THEN /\ rd' = Returned("read", 0, "ok", <<>>, "none", <<>>, Undelivered)
          /\ UNCHANGED r
     ELSE /\ r' = [buffer |-> <<>>, remaining |-> bytes]
          /\ rd' = [Idle EXCEPT !.pc = "consume", !.op = "read", !.n = bytes,
                                !.snap = Undelivered]
  /\ UNCHANGED <<inVars, writeVars, cl, lifeVars, auxVars>>

\* input_stream::consume, one turn of its loop with a chunk at hand: the
\* consumer is called with the retained chunk (an empty one once the end of
\* the stream was seen).  continue_consuming goes round again unless the
\* stream is at its end; stop_consuming gives the rest back to the stream.
\* When the loop ends the continuation of Socket::read runs.
ConsumerCall ==
  /\ proc = "running"
  /\ rd.pc = "consume"
  /\ ibuf # <<>> \/ ieof
  /\ LET res == bufferlist_consumer(r.buffer, r.remaining, ibuf) IN
     IF ~res.stop /\ ~ieof
     THEN /\ r' = [buffer |-> res.bl, remaining |-> res.remaining]
          /\ ibuf' = <<>>
          /\ UNCHANGED rd
     ELSE LET out == read_then(res.bl, res.remaining) IN
          /\ r' = [buffer |-> out.buffer, remaining |-> res.remaining]
          /\ ibuf' = res.rest
          /\ rd' = Returned("read", rd.n, out.status, out.result, "value",
                            <<>>, rd.snap)
  /\ UNCHANGED <<wire, ieof, writeVars, cl, lifeVars, auxVars>>

\* ---------------------------------------------------- Socket::read_exactly
\* Mutant: the check for an empty result is left out.
read_exactly_then_nocheck(buf) ==
  [status |-> "ok", result |-> buf]

\* The continuation of in.read_exactly() in Socket::read_exactly.
read_exactly_then(buf) ==
  IF buf = <<>>
  THEN [status |-> read_eof, result |-> <<>>]
  ELSE [status |-> "ok", result |-> buf]

\* Socket::read_exactly(bytes): the early return for bytes == 0, else the
\* call of the stream's exact-count primitive.
read_exactly(bytes) ==
  /\ proc = "running"
  /\ rd.pc = "idle"
  /\ IF bytes = 0
     THEN rd' = Returned("read_exactly", 0, "ok", <<>>, "none", <<>>,
                         Undelivered)
     ELSE rd' = [Idle EXCEPT !.pc = "exact", !.op = "read_exactly",
                             !.n = bytes, !.snap = Undelivered]
  /\ UNCHANGED <<inVars, r, writeVars, cl, lifeVars, auxVars>>

\* The primitive returns buf and the continuation of Socket::read_exactly
\* runs on it.
ExactReturn(buf) ==
  LET out == read_exactly_then(buf) IN
  Returned("read_exactly", rd.n, out.status, out.result, "value", buf,
           rd.snap)

\* input_stream::read_exactly, with bytes at hand: it takes what it still
\* needs from the retained chunk and returns once it has the whole count.
ExactTake ==
  /\ proc = "running"
  /\ rd.pc = "exact"
  /\ ibuf # <<>>
  /\ LET need == rd.n - Len(rd.acc)
         acc == rd.acc \o Take(ibuf, need)
     IN /\ ibuf' = Drop(ibuf, need)
        /\ IF Len(acc) = rd.n
           THEN rd' = ExactReturn(acc)
           ELSE rd' = [rd EXCEPT !.acc = acc]
  /\ UNCHANGED <<wire, ieof, r, writeVars, cl, lifeVars, auxVars>>

\* ------------------------------------------------------- the data source
\* The source hands the stream its next chunk: any non-empty prefix of what
\* the peer has sent.  Nothing is delivered once the input side is shut down.
GetData ==
  /\ proc = "running"
  /\ rd.pc \in {"consume", "exact"}
  /\ ibuf = <<>> /\ ~ieof
  /\ net = "up"
  /\ ~shutIn
  /\ \E k \in 1..Len(wire) :
       /\ ibuf' = Take(wire, k)
       /\ wire' = Drop(wire, k)
  /\ UNCHANGED <<ieof, r, rd, writeVars, cl, lifeVars, auxVars>>

\* The source is at the end of the stream (it hands out an empty chunk): the
\* peer has sent everything and closed, or the input side was shut down.
AtEnd == wire = <<>> \/ shutIn

\* The end of the stream seen by consume: the loop goes round once more and
\* calls the consumer with an empty chunk.
GetEofConsume ==
  /\ proc = "running"
  /\ rd.pc = "consume"
  /\ ibuf = <<>> /\ ~ieof
  /\ net = "up"
  /\ AtEnd
  /\ ieof' = TRUE
  /\ UNCHANGED <<wire, ibuf, r, rd, writeVars, cl, lifeVars, auxVars>>

\* The end of the stream seen by read_exactly: it returns what it has
\* gathered so far, which may be short or empty.
GetEofExact ==
  /\ proc = "running"
  /\ rd.pc = "exact"
  /\ ibuf = <<>>
  /\ net = "up"
  /\ AtEnd \/ ieof
  /\ ieof' = TRUE
  /\ rd' = ExactReturn(rd.acc)
  /\ UNCHANGED <<wire, ibuf, r, writeVars, cl, lifeVars, auxVars>>

\* The source fails: the future of consume or read_exactly fails with the
\* transport's error and the handle's continuation does not run.
GetError ==
  /\ proc = "running"
  /\ rd.pc \in {"consume", "exact"}
  /\ ibuf = <<>> /\ (rd.pc = "consume" => ~ieof)
  /\ net = "reset"
  /\ rd' = Returned(rd.op, rd.n, connection_reset, <<>>, "error", <<>>,
                    rd.snap)
  /\ UNCHANGED <<inVars, r, writeVars, cl, lifeVars, auxVars>>

\* The caller takes the outcome of its call.  The result of a successful
\* read joins what it has taken so far; any other outcome ends the run of
\* successful reads, and the record of it is dropped.
ReadAck ==
  /\ proc = "running"
  /\ rd.pc = "done"
  /\ rd' = Idle
  /\ hist' = IF rd.op = "read" /\ rd.status = "ok" /\ hist.clean
             THEN [hist EXCEPT !.taken = @ \o rd.result, !.asked = @ + rd.n]
             ELSE [hist EXCEPT !.taken = <<>>, !.asked = 0, !.clean = FALSE]
  /\ UNCHANGED <<inVars, r, writeVars, cl, lifeVars, calls, acceptVars, rd2>>

\* ------------------------------------------------------- overlapping reads
\* Nothing in Socket::read keeps a second call from starting while the
\* first is in flight.  The second caller is rd2; its in.consume() runs a
\* second loop on the same stream, whose consumer refers to the same
\* Socket::r as the first.

\* Mutant: the second call sets the count but does not clear the buffer.
read_overlapping_noclear(bytes) ==
  /\ proc = "running"
  /\ rd.pc = "consume"
  /\ rd2.pc = "idle"
  /\ IF bytes = 0
     THEN /\ rd2' = [Returned("read", 0, "ok", <<>>, "none", <<>>, Undelivered)
                       EXCEPT !.cut = FALSE]
          /\ UNCHANGED r
     ELSE /\ r' = [r EXCEPT !.remaining = bytes]
          /\ rd2' = [Idle EXCEPT !.pc = "consume", !.op = "read", !.n = bytes,
                                 !.snap = Undelivered]
  /\ UNCHANGED <<inVars, rd, writeVars, cl, lifeVars, calls, acceptVars, hist>>

\* Socket::read(bytes) called while the read of rd is in flight: the same
\* code, so the same reset of the per-read state.
read_overlapping(bytes) ==
  /\ proc = "running"
  /\ rd.pc = "consume"
  /\ rd2.pc = "idle"
  /\ IF bytes = 0
     THEN /\ rd2' = [Returned("read", 0, "ok", <<>>, "none", <<>>, Undelivered)
                       EXCEPT !.cut = FALSE]
          /\ UNCHANGED r
     ELSE /\ r' = [buffer |-> <<>>, remaining |-> bytes]
          /\ rd2' = [Idle EXCEPT !.pc = "consume", !.op = "read", !.n = bytes,
                                 !.snap = Undelivered]
  /\ UNCHANGED <<inVars, rd, writeVars, cl, lifeVars, calls, acceptVars, hist>>

\* One turn of the second consume loop with a chunk at hand, as ConsumerCall.
ConsumerCall2 ==
  /\ proc = "running"
  /\ rd2.pc = "consume"
  /\ ibuf # <<>> \/ ieof
  /\ LET res == bufferlist_consumer(r.buffer, r.remaining, ibuf) IN
     IF ~res.stop /\ ~ieof
     THEN /\ r' = [buffer |-> res.bl, remaining |-> res.remaining]
          /\ ibuf' = <<>>
          /\ UNCHANGED rd2
     ELSE LET out == read_then(res.bl, res.remaining) IN
          /\ r' = [buffer |-> out.buffer, remaining |-> res.remaining]
          /\ ibuf' = res.rest
          /\ rd2' = [Returned("read", rd2.n, out.status, out.result, "value",
                              <<>>, rd2.snap) EXCEPT !.cut = FALSE]
  /\ UNCHANGED <<wire, ieof, rd, writeVars, cl, lifeVars, calls, acceptVars, hist>>

\* The source serves the second loop when it is the only one waiting.
OnlySecondWaits ==
  /\ rd2.pc = "consume"
  /\ rd.pc \notin {"consume", "exact"}
  /\ ibuf = <<>> /\ ~ieof

GetData2 ==
  /\ proc = "running"
  /\ OnlySecondWaits
  /\ net = "up"
  /\ ~shutIn
  /\ \E k \in 1..Len(wire) :
       /\ ibuf' = Take(wire, k)
       /\ wire' = Drop(wire, k)
  /\ UNCHANGED <<ieof, r, rd, writeVars, cl, lifeVars, auxVars>>

GetEof2 ==
  /\ proc = "running"
  /\ OnlySecondWaits
  /\ net = "up"
  /\ AtEnd
  /\ ieof' = TRUE
  /\ UNCHANGED <<wire, ibuf, r, rd, writeVars, cl, lifeVars, auxVars>>

\* The source fails the second loop: its consume fails with the error.
GetError2 ==
  /\ proc = "running"
  /\ rd2.pc = "consume"
  /\ ibuf = <<>> /\ ~ieof
  /\ net = "reset"
  /\ rd2' = [Returned("read", rd2.n, connection_reset, <<>>, "error", <<>>,
                      rd2.snap) EXCEPT !.cut = FALSE]
  /\ UNCHANGED <<inVars, r, rd, writeVars, cl, lifeVars, calls, acceptVars, hist>>

\* The second caller takes the outcome of its call.
ReadAck2 ==
  /\ proc = "running"
  /\ rd2.pc = "done"
  /\ rd2' = Idle
  /\ UNCHANGED <<inVars, r, rd, writeVars, cl, lifeVars, calls, acceptVars, hist>>

\* ---------------------------------------------------------- the output path
\* A caller of the output operations: where its call stands (pc), the packet
\* of its write (p, 0 for none), the outcome of the returned future (status),
\* whether the future of its out.write() has resolved (wdone), whether the
\* future of its out.flush() has resolved (fdone), and the error the
\* transport raised to its out.write() or out.flush() (raised).
WIdle == [pc |-> "idle", op |-> "none", p |-> 0, status |-> "none",
          wdone |-> FALSE, fdone |-> FALSE, raised |-> "none"]

Writers == {"wf", "w"}

\* output_stream::write(packet): the packet joins the stream's buffer; once
\* the buffer holds OutBufSize or more it is handed to the transport and the
\* future of the write resolves when that is done (TRUE: the write waits).
OutFull(buf) == Len(buf) >= OutBufSize

\* The effect of out.write(p) issued by caller who on the stream.
OutWrite(who, p) ==
  /\ nw' = nw + 1
  /\ sent' = sent
  /\ IF OutFull(obuf \o <<p>>)
     THEN /\ inflight' = Append(inflight, [who |-> who, data |-> obuf \o <<p>>])
          /\ obuf' = <<>>
     ELSE /\ obuf' = obuf \o <<p>>
          /\ inflight' = inflight

\* Socket::write(buf): the future of out.write() is returned as it is.
write(p) ==
  /\ proc = "running"
  /\ wr["w"].pc = "idle"
  /\ nw < MaxWrites
  /\ OutWrite("w", p)
  /\ wr' = [wr EXCEPT !["w"] =
              IF OutFull(obuf \o <<p>>)
              THEN [WIdle EXCEPT !.pc = "write", !.op = "write", !.p = p]
              ELSE [WIdle EXCEPT !.pc = "done", !.op = "write", !.p = p,
                                 !.status = "ok", !.wdone = TRUE]]
  /\ UNCHANGED <<readVars, cl, lifeVars, auxVars>>

\* Socket::flush(): the future of out.flush() is returned as it is.
flush ==
  /\ proc = "running"
  /\ wr["w"].pc = "idle"
  /\ wr' = [wr EXCEPT !["w"] = [WIdle EXCEPT !.pc = "flush", !.op = "flush"]]
  /\ UNCHANGED <<readVars, outVars, cl, lifeVars, auxVars>>

\* Mutant: out.flush() is called right after out.write(), not chained to it.
write_flush_unchained(p) ==
  /\ proc = "running"
  /\ wr["wf"].pc = "idle"
  /\ nw < MaxWrites
  /\ OutWrite("wf", p)
  /\ wr' = [wr EXCEPT !["wf"] =
              [WIdle EXCEPT !.pc = "flush", !.op = "write_flush", !.p = p,
                            !.wdone = ~OutFull(obuf \o <<p>>)]]
  /\ UNCHANGED <<readVars, cl, lifeVars, auxVars>>

\* Socket::write_flush(buf): out.write(buf), and out.flush() chained to it
\* with then().  A write that is ready at once runs the continuation at
\* once; a write that waits leaves the continuation to run when it resolves.
write_flush(p) ==
  /\ proc = "running"
  /\ wr["wf"].pc = "idle"
  /\ nw < MaxWrites
  /\ OutWrite("wf", p)
  /\ wr' = [wr EXCEPT !["wf"] =
              IF OutFull(obuf \o <<p>>)
              THEN [WIdle EXCEPT !.pc = "write", !.op = "write_flush", !.p = p]
              ELSE [WIdle EXCEPT !.pc = "flush", !.op = "write_flush", !.p = p,
                                 !.wdone = TRUE]]
  /\ UNCHANGED <<readVars, cl, lifeVars, auxVars>>

\* The continuation of out.write() in write_flush: [this] { return
\* out.flush(); }, run once the write has resolved.
write_flush_then ==
  /\ proc = "running"
  /\ wr["wf"].pc = "write_done"
  /\ wr' = [wr EXCEPT !["wf"].pc = "flush"]
  /\ UNCHANGED <<readVars, outVars, cl, lifeVars, auxVars>>

\* The transport can take data: the connection is up and its output side
\* has not been shut down.
OutOpen == net = "up" /\ ~shutOut

\* The transport has taken the oldest buffer in flight: the write that
\* waited for it resolves.  For write_flush the continuation is now due.
PutDone ==
  /\ proc = "running"
  /\ inflight # <<>>
  /\ OutOpen
  /\ LET h == Head(inflight) IN
     /\ sent' = sent \o h.data
     /\ inflight' = Tail(inflight)
     /\ wr' = [wr EXCEPT ![h.who] =
                 IF h.who = "wf"
                 THEN [@ EXCEPT !.pc = "write_done", !.wdone = TRUE]
                 ELSE [@ EXCEPT !.pc = "done", !.status = "ok",
                                !.wdone = TRUE]]
  /\ UNCHANGED <<readVars, obuf, nw, cl, lifeVars, auxVars>>

\* Mutant: the continuation of write_flush runs whatever the write's
\* outcome, so a failed write is followed by the flush.
write_failed_flushes(rec, e) ==
  IF rec.op = "write_flush"
  THEN [rec EXCEPT !.pc = "flush"]
  ELSE [rec EXCEPT !.pc = "done", !.status = e]

\* The future of out.write() fails with e.  Socket::write returns that
\* future as it is; in Socket::write_flush then() does not run the
\* continuation and the failure is the outcome of the call.
write_failed(rec, e) ==
  [rec EXCEPT !.pc = "done", !.status = e]

\* The future of out.flush() fails with e: Socket::flush returns it as it
\* is, and in Socket::write_flush it is the future the continuation returns.
flush_failed(rec, e) ==
  [rec EXCEPT !.pc = "done", !.status = e]

\* The transport refuses the oldest buffer in flight: the write that waited
\* for it fails with the transport's error.
PutFail(e) ==
  /\ proc = "running"
  /\ inflight # <<>>
  /\ ~OutOpen
  /\ LET h == Head(inflight) IN
     /\ inflight' = Tail(inflight)
     /\ wr' = [wr EXCEPT ![h.who] = write_failed([@ EXCEPT !.raised = e], e)]
  /\ UNCHANGED <<readVars, obuf, sent, nw, cl, lifeVars, auxVars>>

\* out.flush() of caller who is done: everything enqueued before it has been
\* handed to the transport.
FlushDone(who) ==
  /\ proc = "running"
  /\ wr[who].pc = "flush"
  /\ inflight = <<>>
  /\ OutOpen \/ obuf = <<>>
  /\ sent' = sent \o obuf
  /\ obuf' = <<>>
  /\ wr' = [wr EXCEPT ![who] = [@ EXCEPT !.pc = "done", !.status = "ok",
                                         !.fdone = TRUE]]
  /\ UNCHANGED <<readVars, inflight, nw, cl, lifeVars, auxVars>>

\* out.flush() of caller who fails with the transport's error.
FlushFail(who, e) ==
  /\ proc = "running"
  /\ wr[who].pc = "flush"
  /\ ~OutOpen
  /\ wr' = [wr EXCEPT ![who] = flush_failed([@ EXCEPT !.raised = e], e)]
  /\ UNCHANGED <<readVars, outVars, cl, lifeVars, auxVars>>

\* The caller takes the outcome of its call.
WriteAck(who) ==
  /\ proc = "running"
  /\ wr[who].pc = "done"
  /\ wr' = [wr EXCEPT ![who] = WIdle]
  /\ UNCHANGED <<readVars, outVars, cl, lifeVars, auxVars>>

\* ------------------------------------------------------------ the peer
\* The peer resets the connection.
PeerReset ==
  /\ proc = "running"
  /\ net = "up"
  /\ net' = "reset"
  /\ UNCHANGED <<readVars, writeVars, cl, shutIn, shutOut, down, closed, proc>>
  /\ UNCHANGED auxVars

\* ------------------------------------------------------ Socket::shutdown
\* A read or read_exactly is suspended: its stream has no chunk at hand and
\* waits for the source.
Suspended == rd.pc \in {"consume", "exact"} /\ ibuf = <<>> /\ ~ieof

\* Mutant: the assertion is left out, every call reaches the transport.
shutdown_noassert ==
  /\ proc = "running"
  /\ down' = TRUE
  /\ shutIn' = TRUE
  /\ shutOut' = TRUE
  /\ calls' = [calls EXCEPT !.shutdown = @ + 1,
                            !.shutdown_input = @ + 1,
                            !.shutdown_output = @ + 1]
  /\ rd' = [rd EXCEPT !.cut = Suspended]
  /\ UNCHANGED <<inVars, r, writeVars, cl, net, closed, proc, acceptVars, rd2, hist>>

\* Socket::shutdown(): the assertion, the flag, and both halves of the
\* connected socket shut down.  It returns at once; a reader that is
\* suspended at that moment is marked (cut) and left where it is.
shutdown ==
  /\ proc = "running"
  /\ IF down
     THEN \* ceph_assert(!down)
          /\ proc' = "assert_failed"
          /\ calls' = [calls EXCEPT !.shutdown = @ + 1]
          /\ UNCHANGED <<down, shutIn, shutOut, rd>>
     ELSE /\ down' = TRUE
          /\ shutIn' = TRUE
          /\ shutOut' = TRUE
          /\ calls' = [calls EXCEPT !.shutdown = @ + 1,
                                    !.shutdown_input = @ + 1,
                                    !.shutdown_output = @ + 1]
          /\ rd' = [rd EXCEPT !.cut = Suspended]
          /\ UNCHANGED proc
  /\ UNCHANGED <<inVars, r, writeVars, cl, net, closed, acceptVars, rd2, hist>>

\* --------------------------------------------------------- Socket::close
\* What a release can fail with: the two errors close() expects, a
\* std::system_error with any other code, and an exception of another type.
other_system_error == "other_system_error"
other_exception == "other_exception"
SystemErrors == {broken_pipe, connection_reset, other_system_error}
Failures == SystemErrors \cup {other_exception}

\* The caller of close(): where the call stands (pc), what in.close() and
\* out.close() resolved with (inRaw, outRaw: "pending" until they do), what
\* close_and_handle_errors made of out.close() (outr), the outcome of the
\* returned future (status), and whether the peer had reset the connection
\* (resetBefore) or shutdown() had been called (downBefore) when close() was.
CIdle == [pc |-> "idle", inRaw |-> "none", outRaw |-> "none", outr |-> "none",
          status |-> "none", resetBefore |-> FALSE, downBefore |-> FALSE]

\* Mutant: only broken_pipe is ignored.
close_and_handle_errors_nocr(res) ==
  IF res \in SystemErrors
  THEN IF res # broken_pipe THEN "abort" ELSE "ok"
  ELSE res

\* Mutant: every std::system_error aborts.
close_and_handle_errors_strict(res) ==
  IF res \in SystemErrors THEN "abort" ELSE res

\* close_and_handle_errors: handle_exception_type catches a
\* std::system_error only; ceph_abort() unless it is broken_pipe or
\* connection_reset, which are ignored.  Anything else passes through.
close_and_handle_errors(res) ==
  IF res \in SystemErrors
  THEN IF res # broken_pipe /\ res # connection_reset
       THEN "abort"
       ELSE "ok"
  ELSE res

\* Mutant: handle_exception is left out, so a failure of either release
\* fails the future close() returns.
close_join_propagate(inr, outr) ==
  IF inr = "ok" /\ outr = "ok" THEN "ok" ELSE "failed"

\* when_all_succeed(...).handle_exception(...) in Socket::close: any failure
\* of either future is logged and ceph_abort() is called.
close_join(inr, outr) ==
  IF inr = "ok" /\ outr = "ok" THEN "ok" ELSE "abort"

\* Mutant: out.close() is chained to in.close() instead of being started
\* with it.
close_sequential ==
  /\ proc = "running"
  /\ IF closed
     THEN /\ proc' = "assert_failed"
          /\ calls' = [calls EXCEPT !.close = @ + 1]
          /\ UNCHANGED <<closed, cl>>
     ELSE /\ closed' = TRUE
          /\ cl' = [CIdle EXCEPT !.pc = "closing", !.inRaw = "pending",
                                 !.resetBefore = (net = "reset"),
                                 !.downBefore = down]
          /\ calls' = [calls EXCEPT !.close = @ + 1, !.in_close = @ + 1]
          /\ UNCHANGED proc
  /\ UNCHANGED <<readVars, writeVars, net, shutIn, shutOut, down, acceptVars, rd2, hist>>

\* Socket::close(): the assertion, the flag, and the start of both releases.
close ==
  /\ proc = "running"
  /\ IF closed
     THEN \* ceph_assert(!closed)
          /\ proc' = "assert_failed"
          /\ calls' = [calls EXCEPT !.close = @ + 1]
          /\ UNCHANGED <<closed, cl>>
     ELSE /\ closed' = TRUE
          /\ cl' = [CIdle EXCEPT !.pc = "closing", !.inRaw = "pending",
                                 !.outRaw = "pending", !.outr = "pending",
                                 !.resetBefore = (net = "reset"),
                                 !.downBefore = down]
          /\ calls' = [calls EXCEPT !.close = @ + 1,
                                    !.in_close = @ + 1,
                                    !.out_close = @ + 1]
          /\ UNCHANGED proc
  /\ UNCHANGED <<readVars, writeVars, net, shutIn, shutOut, down, acceptVars, rd2, hist>>

\* What the release of a resource may resolve with: success, the expected
\* errors when the connection was reset or shut down, any other failure at
\* any time.
MayResolve(res) ==
  \/ res \in {"ok", other_system_error, other_exception}
  \/ res \in {broken_pipe, connection_reset} /\ (net = "reset" \/ shutIn)

\* in.close() resolves with res.
InCloseDone(res) ==
  /\ proc = "running"
  /\ cl.pc = "closing"
  /\ cl.inRaw = "pending"
  /\ MayResolve(res)
  /\ cl' = [cl EXCEPT !.inRaw = res]
  /\ UNCHANGED <<readVars, writeVars, lifeVars, auxVars>>

\* out.close() resolves with res, and close_and_handle_errors runs on it.
\* A successful release has flushed what was enqueued.
OutCloseDone(res) ==
  /\ proc = "running"
  /\ cl.pc = "closing"
  /\ cl.outRaw = "pending"
  /\ MayResolve(res)
  /\ res = "ok" => inflight = <<>> /\ (OutOpen \/ obuf = <<>>)
  /\ LET f == close_and_handle_errors(res) IN
     /\ cl' = [cl EXCEPT !.outRaw = res, !.outr = f]
     /\ proc' = IF f = "abort" THEN "aborted" ELSE proc
  /\ IF res = "ok"
     THEN sent' = sent \o obuf /\ obuf' = <<>>
     ELSE UNCHANGED <<sent, obuf>>
  /\ UNCHANGED <<readVars, inflight, nw, wr, net, shutIn, shutOut, down, closed>>
  /\ UNCHANGED auxVars

\* Both releases have resolved: the future of when_all_succeed resolves and
\* close() completes, or the process is aborted.
CloseJoin ==
  /\ proc = "running"
  /\ cl.pc = "closing"
  /\ cl.inRaw # "pending" /\ cl.outRaw # "pending"
  /\ LET j == close_join(cl.inRaw, cl.outr) IN
     IF j = "abort"
     THEN /\ proc' = "aborted"
          /\ UNCHANGED cl
     ELSE /\ cl' = [cl EXCEPT !.pc = "done", !.status = j]
          /\ UNCHANGED proc
  /\ UNCHANGED <<readVars, writeVars, net, shutIn, shutOut, down, closed>>
  /\ UNCHANGED auxVars

\* -------------------------------------------------------- Socket::~Socket
\* The destructor: assert(closed).
Socket_destructor ==
  /\ proc = "running"
  /\ proc' = IF closed THEN "destroyed" ELSE "assert_failed"
  /\ UNCHANGED <<readVars, writeVars, cl, net, shutIn, shutOut, down, closed>>
  /\ UNCHANGED auxVars

\* --------------------------------------------------------- Socket::accept
\* The address types of entity_addr_t.
TYPE_NONE == "TYPE_NONE"
TYPE_LEGACY == "TYPE_LEGACY"
TYPE_MSGR2 == "TYPE_MSGR2"
TYPE_ANY == "TYPE_ANY"

\* seastar::socket_address: the low-level address of a peer.
SockAddrs == [family : {"AF_INET", "AF_INET6"}, host : 1..NumHosts,
              port : 1..NumPorts]

\* A connection pending on the listener: the low-level address it comes
\* from, and the type the connecting side gives its own address, which the
\* listener does not deliver.
Pending == [paddr : SockAddrs, peer_type : {TYPE_LEGACY, TYPE_MSGR2, TYPE_ANY}]

\* entity_addr_t, default-constructed, and its two setters.
entity_addr_t == [type |-> TYPE_NONE, addr |-> "none"]
set_sockaddr(a, sa) == [a EXCEPT !.addr = sa]
set_type(a, t) == [a EXCEPT !.type = t]

\* Mutant: the type of the peer address is not set.
accept_then_notype(paddr) ==
  set_sockaddr(entity_addr_t, paddr)

\* The continuation of listener.accept() in Socket::accept: the peer address
\* it returns together with the new handle.
accept_then(paddr) ==
  set_type(set_sockaddr(entity_addr_t, paddr), TYPE_ANY)

\* Socket::accept(listener): the next pending connection is accepted.
accept ==
  /\ proc = "running"
  /\ listener # <<>>
  /\ listener' = Tail(listener)
  /\ accepted' = Append(accepted, [conn |-> Head(listener),
                                   peer_addr |-> accept_then(Head(listener).paddr)])
  /\ UNCHANGED <<readVars, writeVars, cl, lifeVars, calls, rd2, hist>>

\* ----------------------------------------------------------- the system
InitHandle ==
  /\ ibuf = <<>>
  /\ ieof = FALSE
  /\ r.buffer = <<>>
  /\ rd = Idle
  /\ obuf = <<>>
  /\ inflight = <<>>
  /\ sent = <<>>
  /\ nw = 0
  /\ wr = [who \in Writers |-> WIdle]
  /\ cl = CIdle
  /\ net = "up"
  /\ shutIn = FALSE
  /\ shutOut = FALSE
  /\ down = FALSE
  /\ closed = FALSE
  /\ proc = "running"
  /\ calls = [shutdown |-> 0, shutdown_input |-> 0, shutdown_output |-> 0,
              close |-> 0, in_close |-> 0, out_close |-> 0]
  /\ rd2 = Idle
  /\ hist = [orig |-> wire, taken |-> <<>>, asked |-> 0, clean |-> TRUE]

\* No listener is involved: the handle is there already.
NoListener == listener = <<>> /\ accepted = <<>>

\* A new handle on a connection over which the peer sends any byte sequence.
\* Socket::r has no initializer: r.remaining starts with any value.
Init ==
  /\ wire \in SeqsUpTo(Bytes, MaxLen)
  /\ r \in [buffer : {<<>>}, remaining : 0..MaxN]
  /\ InitHandle
  /\ NoListener

NextRead ==
  \/ \E bytes \in 0..MaxN : read(bytes)
  \/ \E bytes \in 0..MaxN : read_exactly(bytes)
  \/ ConsumerCall
  \/ ExactTake
  \/ GetData
  \/ GetEofConsume
  \/ GetEofExact
  \/ GetError
  \/ ReadAck

NextWrite ==
  \/ \E p \in {nw + 1} : write(p)
  \/ flush
  \/ \E p \in {nw + 1} : write_flush(p)
  \/ write_flush_then
  \/ PutDone
  \/ \E e \in {broken_pipe, connection_reset} : PutFail(e)
  \/ \E who \in Writers : FlushDone(who)
  \/ \E who \in Writers, e \in {broken_pipe, connection_reset} : FlushFail(who, e)
  \/ \E who \in Writers : WriteAck(who)

NextLife ==
  \/ PeerReset
  \/ shutdown

NextClose ==
  \/ close
  \/ \E res \in {"ok"} \cup Failures : InCloseDone(res)
  \/ \E res \in {"ok"} \cup Failures : OutCloseDone(res)
  \/ CloseJoin
  \/ Socket_destructor

NextOverlap ==
  \/ \E bytes \in 0..MaxN : read_overlapping(bytes)
  \/ ConsumerCall2
  \/ GetData2
  \/ GetEof2
  \/ GetError2
  \/ ReadAck2

\* The input side of the handle: reads, the peer and shutdown().
SpecRead == Init /\ [][NextRead \/ NextLife]_vars

\* The input side with callers that do not wait for one read to complete
\* before they issue the next.
SpecOverlap == Init /\ [][NextRead \/ NextOverlap \/ NextLife]_vars

\* The output side and the teardown of a handle whose peer sends nothing.
InitWrite ==
  /\ wire = <<>>
  /\ r = [buffer |-> <<>>, remaining |-> 0]
  /\ InitHandle
  /\ NoListener

SpecWrite == InitWrite /\ [][NextWrite \/ NextLife \/ NextClose]_vars

\* Both sides of a handle whose peer sends at most IOLen bytes, without the
\* teardown.
InitIO ==
  /\ wire \in SeqsUpTo(Bytes, IOLen)
  /\ r = [buffer |-> <<>>, remaining |-> 0]
  /\ InitHandle
  /\ NoListener

SpecIO == InitIO /\ [][NextRead \/ NextWrite \/ NextLife]_vars

\* The passive-open factory on a listener with any connections pending.
InitAccept ==
  /\ wire = <<>>
  /\ r = [buffer |-> <<>>, remaining |-> 0]
  /\ InitHandle
  /\ listener \in SeqsUpTo(Pending, MaxPending)
  /\ accepted = <<>>

SpecAccept == InitAccept /\ [][accept]_vars

\* The whole handle with callers that issue one read at a time: the product
\* of its sides.  The properties below are checked under the specifications
\* of the sides, above.
Next == NextRead \/ NextWrite \/ NextLife \/ NextClose

Spec == Init /\ [][Next]_vars

\* ------------------------------------------------------------ properties
\* A read(n) with n > 0 that has returned; a read_exactly(n) likewise.
ReadReturned == rd.pc = "done" /\ rd.op = "read" /\ rd.n > 0
ExactReturned == rd.pc = "done" /\ rd.op = "read_exactly" /\ rd.n > 0

\* The transport let the stream run to the requested count: no reset and
\* no shutdown of the input side.
Undisturbed == net = "up" /\ ~shutIn

\* A read that succeeded holds exactly the next n undelivered bytes.
ReadExact == Len(rd.result) = rd.n /\ rd.result = Take(rd.snap, rd.n)

\* C1, as stated: read(n), n > 0, has exactly two outcomes: success with
\* exactly the next n undelivered bytes of the stream, or failure with
\* ReadEOF.
C1_TwoOutcomes ==
  ReadReturned =>
    \/ rd.status = "ok" /\ ReadExact
    \/ rd.status = read_eof

\* C1, amended: read(n), n > 0, has exactly three outcomes: success with
\* exactly the next n undelivered bytes of the stream in stream order,
\* failure with ReadEOF when the stream ended (or was shut down) before n
\* bytes, or failure with the error the transport raised; it never succeeds
\* with fewer or more than n bytes.  On an undisturbed stream that delivers
\* exactly n bytes and ends, read(n) succeeds and read(n+1) fails with ReadEOF.
C1_ReadOutcomes ==
  ReadReturned =>
    /\ \/ rd.status = "ok" /\ ReadExact
       \/ rd.status = read_eof /\ (Len(rd.snap) < rd.n \/ shutIn)
       \/ rd.status = connection_reset /\ rd.got = "error" /\ net = "reset"
    /\ Undisturbed /\ Len(rd.snap) >= rd.n => rd.status = "ok"
    /\ Undisturbed /\ Len(rd.snap) < rd.n => rd.status = read_eof

\* A read of several bytes has succeeded and left the rest of a chunk behind.
C1_Witness ==
  ReadReturned /\ rd.status = "ok" /\ rd.n >= 2 /\ Len(rd.result) = rd.n
               /\ ibuf # <<>>

\* C2, the assembly law: while bufferlist_consumer is driven, the bytes
\* assembled so far followed by the bytes not yet consumed are the byte
\* sequence the read started from, however the sequence is cut into chunks;
\* when the consumer signals completion the container holds exactly the
\* first n bytes and the unconsumed tail left for the next read is exactly
\* the other L - n bytes, in order.
C2_AssemblyLaw ==
  /\ rd.pc = "consume" => r.buffer \o Undelivered = rd.snap
  /\ ReadReturned /\ rd.status = "ok" =>
       /\ rd.result = Take(rd.snap, rd.n)
       /\ r.remaining = 0
       /\ Undelivered = Drop(rd.snap, rd.n)
       /\ Len(Undelivered) = Len(rd.snap) - rd.n

\* A read completed inside a chunk: one byte taken, the rest of the chunk
\* and more of the stream left for the next read.
C2_Witness ==
  /\ ReadReturned /\ rd.status = "ok"
  /\ Len(rd.snap) > rd.n
  /\ Len(ibuf) >= 1 /\ Len(Undelivered) >= 2

\* C3: a read_exactly(n), n > 0, that succeeds holds exactly n bytes: a
\* stream that ends before n bytes were delivered makes it fail with ReadEOF.
C3_ExactOrEof ==
  ExactReturned =>
    /\ rd.status = "ok" => Len(rd.result) = rd.n
    /\ rd.got = "value" /\ Len(rd.prim) < rd.n => rd.status = read_eof

\* C4: read_exactly(n), n > 0, fails with ReadEOF exactly when the stream's
\* exact-count primitive returned an empty result, and returns every
\* non-empty result of the primitive unchanged as a success.
C4_EofIffEmpty ==
  ExactReturned =>
    /\ rd.status = read_eof <=> (rd.got = "value" /\ rd.prim = <<>>)
    /\ rd.got = "value" /\ rd.prim # <<>> =>
         rd.status = "ok" /\ rd.result = rd.prim

\* The primitive returned an empty result to a read_exactly, which failed.
C4_Witness ==
  ExactReturned /\ rd.got = "value" /\ rd.prim = <<>> /\ rd.status = read_eof

\* C5: a read(0) or read_exactly(0) returns at once with an empty result
\* and changes neither the input stream (undelivered bytes, retained chunk,
\* end-of-stream mark) nor the per-read state {buffer, remaining}.
C5_ZeroRead ==
  [][(rd.pc = "idle" /\ rd'.pc # "idle" /\ rd'.n = 0) =>
       /\ rd'.pc = "done" /\ rd'.status = "ok" /\ rd'.result = <<>>
       /\ UNCHANGED <<wire, ibuf, ieof, r>>]_vars

\* A zero-length read has returned on a handle that was shut down, at the
\* end of the stream, with the leftovers of a failed read in its buffer.
C5_Witness ==
  /\ rd.pc = "done" /\ rd.n = 0 /\ rd.status = "ok" /\ rd.result = <<>>
  /\ shutIn /\ ieof /\ r.buffer # <<>> /\ r.remaining > 0

\* Whether x occurs in the sequence s.
InSeq(x, s) == \E i \in 1..Len(s) : s[i] = x

\* Whether packet x is still held by the output stream: enqueued in its
\* buffer or in a buffer the transport has not taken yet.
Buffered(x) ==
  InSeq(x, obuf) \/ \E i \in 1..Len(inflight) : InSeq(x, inflight[i].data)

\* C6: the flush of a write_flush starts only after its write has resolved,
\* and write_flush signals success only after that flush has resolved, when
\* no byte of its packet is left in the output stream's buffers.
C6_FlushFollowsWrite ==
  LET f == wr["wf"] IN
  /\ f.pc = "flush" => f.wdone
  /\ f.fdone => f.wdone
  /\ f.pc = "done" /\ f.status = "ok" =>
       f.wdone /\ f.fdone /\ ~Buffered(f.p)

\* A write_flush issued after an earlier write has completed, and both
\* packets have been handed to the transport.
C6_Witness ==
  LET f == wr["wf"] IN
  /\ f.pc = "done" /\ f.status = "ok" /\ f.wdone /\ f.fdone
  /\ f.p = 2 /\ InSeq(f.p, sent) /\ InSeq(1, sent)

\* C7: between the write of a write_flush and its flush no other write is
\* enqueued on the handle.
C7_NoWriteBetween ==
  [][wr["wf"].pc \in {"write", "write_done"} => nw' = nw]_vars

\* The two errors close() expects from the release of the output.
Expected == {broken_pipe, connection_reset}

\* Both releases of close() have resolved, and the join is still to run.
BothResolved == cl.pc = "closing" /\ cl.inRaw # "pending" /\ cl.outRaw # "pending"

\* C8, as stated: when the peer reset the connection before close(), close()
\* completes normally and the process is not terminated, whichever release
\* (input, output or both) reports the reset.
C8_ResetSwallowed ==
  /\ cl.resetBefore
  /\ cl.inRaw \in {"ok", connection_reset}
  /\ cl.outRaw \in {"ok", connection_reset}
  => proc # "aborted"

\* C8, amended: when the peer reset the connection before close(), close()
\* completes normally and the process is not terminated if the reset is
\* reported by the release of the output and the release of the input
\* succeeds; a reset reported by the release of the input never lets close()
\* complete.
C8_OutputResetSwallowed ==
  cl.resetBefore =>
    /\ cl.inRaw = "ok" /\ cl.outRaw \in {"ok", connection_reset} =>
         /\ proc # "aborted"
         /\ cl.outr = "ok"
         /\ cl.pc = "closing" => close_join(cl.inRaw, cl.outr) = "ok"
         /\ cl.pc = "done" => cl.status = "ok"
    /\ cl.inRaw = connection_reset => cl.pc # "done"

\* close() has completed on a connection the peer had reset, the release of
\* the output having reported the reset.
C8_Witness ==
  /\ cl.resetBefore /\ cl.pc = "done" /\ cl.status = "ok"
  /\ cl.outRaw = connection_reset /\ proc = "running"

\* C9: when the release of the output fails with BrokenPipe or
\* ConnectionReset and the release of the input succeeds, close() swallows
\* the error and completes normally without terminating the process,
\* whether or not shutdown() was called before close().
C9_ExpectedSwallowed ==
  cl.outRaw \in Expected /\ cl.inRaw \in {"pending", "ok"} =>
    /\ proc # "aborted"
    /\ cl.outr = "ok"
    /\ BothResolved => close_join(cl.inRaw, cl.outr) = "ok"
    /\ cl.pc = "done" => cl.status = "ok"

\* close() has completed after shutdown(), the release of the output having
\* failed with BrokenPipe.
C9_Witness ==
  /\ cl.downBefore /\ cl.pc = "done" /\ cl.status = "ok"
  /\ cl.outRaw = broken_pipe /\ cl.inRaw = "ok" /\ proc = "running"

\* C10: close() never completes with a failure: it completes normally or the
\* process terminates.  The process is aborted exactly for a failure of the
\* release of the output other than BrokenPipe/ConnectionReset or for any
\* failure of the release of the input; otherwise close() completes normally.
C10_CloseOutcomes ==
  LET fatal == cl.inRaw \in Failures \/ cl.outRaw \in Failures \ Expected IN
  /\ cl.status \in {"none", "ok"}
  /\ cl.pc = "done" => cl.status = "ok" /\ ~fatal /\ proc # "aborted"
  /\ proc = "aborted" => cl.pc = "closing" /\ fatal
  /\ cl.outRaw \in SystemErrors \ Expected => proc = "aborted"
  /\ BothResolved /\ proc = "running" =>
       close_join(cl.inRaw, cl.outr) = (IF fatal THEN "abort" ELSE "ok")

\* The process was aborted for a failure of the release of the input alone.
C10_Witness ==
  proc = "aborted" /\ cl.inRaw \in Failures /\ cl.outRaw = "ok"

\* The number 1 when the flag is set, 0 when it is not.
Once(flag) == IF flag THEN 1 ELSE 0

\* C11: each lifecycle flag is set at most once.  shutdown_input() and
\* shutdown_output() have been called exactly once when `down` is set and
\* never otherwise, in.close() and out.close() exactly once when `closed` is
\* set and never otherwise; a second call of shutdown() or of close() leaves
\* the process stopped by the assertion.
C11_SetOnce ==
  /\ calls.shutdown_input = Once(down)
  /\ calls.shutdown_output = Once(down)
  /\ calls.in_close = Once(closed)
  /\ calls.out_close = Once(closed)
  /\ calls.shutdown >= 2 => proc = "assert_failed"
  /\ calls.close >= 2 => proc = "assert_failed"

\* close() was called a second time on a handle that had been shut down.
C11_Witness ==
  /\ calls.close = 2
  /\ calls.shutdown = 1
  /\ proc = "assert_failed"
  /\ calls.in_close = 1
  /\ calls.shutdown_input = 1

\* C12, for read and read_exactly: a call that was suspended when shutdown()
\* was called completes with a failed outcome, ReadEOF or a connection
\* error.
C12_CutReadFails ==
  (rd.pc = "done" /\ rd.cut) => rd.status \in {read_eof, connection_reset}

\* What the callers of the input and output operations see of a failure.
\* A read or read_exactly fails with a connection error exactly when the
\* transport raised it, and with that error.
ReadFailureSurfaces ==
  rd.pc = "done" =>
    (rd.got = "error" <=> rd.status = connection_reset)

\* A caller to whose out.write() or out.flush() the transport raised an
\* error has that error as its outcome and goes no further: after a failed
\* write no flush is issued, and the packet of the failed write is neither
\* enqueued again nor handed to the transport.
WriteFailureSurfaces ==
  \A who \in Writers :
    LET f == wr[who] IN
    /\ f.raised # "none" => f.pc = "done" /\ f.status = f.raised
    /\ f.status \notin {"none", "ok"} => f.raised = f.status
    /\ (f.raised # "none" /\ ~f.wdone) =>
         ~f.fdone /\ (f.p # 0 => ~InSeq(f.p, sent) /\ ~Buffered(f.p))

\* C13: outside close() every failure surfaces unchanged to the caller of
\* the operation that failed; a failed read is not issued again (the stream
\* is left alone until the caller acts), and a failed write of write_flush
\* ends the call without the flush.
C13_FailuresSurface ==
  /\ [](ReadFailureSurfaces /\ WriteFailureSurfaces)
  /\ [][(rd.pc = "done" /\ rd.status # "ok") => UNCHANGED inVars]_vars
  /\ [][(wr["wf"].pc = "write" /\ wr'["wf"].pc # "write") =>
          \/ wr'["wf"].pc = "write_done" /\ wr'["wf"].wdone
          \/ wr'["wf"].pc = "done" /\ wr'["wf"].status = wr'["wf"].raised
                                   /\ wr'["wf"].raised # "none"]_vars

\* The write of a write_flush failed with the reset of the connection, and
\* so did a read.
C13_Witness ==
  /\ wr["wf"].pc = "done"
  /\ wr["wf"].op = "write_flush"
  /\ wr["wf"].status = connection_reset
  /\ ~wr["wf"].wdone
  /\ ~wr["wf"].fdone
  /\ rd.pc = "done"
  /\ rd.op = "read"
  /\ rd.status = connection_reset

\* C14: every peer address accept() has returned carries the type TYPE_ANY,
\* whatever low-level address the listener delivered and whatever type the
\* connecting side uses for itself, and its socket address is the one the
\* listener delivered with that connection.
C14_PeerAddrNormalized ==
  \A i \in 1..Len(accepted) :
    /\ accepted[i].peer_addr.type = TYPE_ANY
    /\ accepted[i].peer_addr.addr = accepted[i].conn.paddr

\* Two connections were accepted that differ in address family, host, port
\* and in the type the connecting side uses.
C14_Witness ==
  /\ Len(accepted) = 2
  /\ accepted[1].conn.paddr.family # accepted[2].conn.paddr.family
  /\ accepted[1].conn.paddr.host # accepted[2].conn.paddr.host
  /\ accepted[1].conn.paddr.port # accepted[2].conn.paddr.port
  /\ accepted[1].conn.peer_type = TYPE_LEGACY
  /\ accepted[2].conn.peer_type = TYPE_MSGR2

\* C15: Closed is terminal.  Once close() has been issued no step that
\* passes the assertions shuts the transport down or changes a lifecycle
\* flag: the handle does not enter ShutdownIssued from Closed.
C15_ClosedTerminal ==
  [][(closed /\ proc' = "running") =>
       /\ closed'
       /\ down' = down
       /\ calls'.shutdown_input = calls.shutdown_input
       /\ calls'.shutdown_output = calls.shutdown_output]_vars

\* C16: close() starts both releases at once, whatever becomes of either,
\* and its future resolves only when neither release is pending any more.
C16_BothReleased ==
  /\ cl.pc \in {"closing", "done"} =>
       /\ cl.inRaw # "none" /\ cl.outRaw # "none"
       /\ calls.in_close = 1 /\ calls.out_close = 1
  /\ cl.pc = "done" => cl.inRaw # "pending" /\ cl.outRaw # "pending"

\* The release of the input has failed while the release of the output is
\* still pending: close() has not completed.
C16_Witness ==
  /\ cl.pc = "closing"
  /\ cl.inRaw \in Failures
  /\ cl.outRaw = "pending"
  /\ calls.out_close = 1

\* C17: a handle is destroyed only after close() has completed: whenever
\* the destructor's assertion has passed, the future of close() has
\* resolved.
C17_DestroyedAfterClose ==
  proc = "destroyed" => cl.pc = "done"

\* The read of rd is suspended: it waits for the source with its state in
\* Socket::r.
ReadSuspended == rd.pc = "consume" /\ ibuf = <<>> /\ ~ieof

\* C18 as stated: at most one read(n > 0) is in flight, and the state of a
\* suspended read is neither reset nor appended to.
C18_OneReadInFlight ==
  /\ [](~(rd.pc = "consume" /\ rd2.pc = "consume"))
  /\ [][ReadSuspended => r' = r]_vars

\* C18: the handle does not keep reads apart.  The state of a suspended
\* read changes only when another read(n > 0) is issued on the handle, and
\* that call resets it: the buffer is emptied and the count set to its n.
C18_ResetByOverlappingRead ==
  [][(ReadSuspended /\ r' # r) =>
       /\ rd2.pc = "idle" /\ rd2'.pc = "consume"
       /\ r' = [buffer |-> <<>>, remaining |-> rd2'.n]
       /\ rd' = rd]_vars

\* A second read was issued while the first was suspended with part of its
\* bytes gathered: those bytes are gone from the buffer.
C18_Witness ==
  /\ ReadSuspended
  /\ rd2.pc = "consume"
  /\ Len(rd.snap) > Len(Undelivered)
  /\ r = [buffer |-> <<>>, remaining |-> rd2.n]

\* The bytes a read(n > 0) has appended so far plus what it still waits for
\* make up n, and the count stays within 0..n.
Conserved(appended) ==
  /\ Len(appended) + r.remaining = rd.n
  /\ 0 <= r.remaining /\ r.remaining <= rd.n

\* C19: during a read(n > 0) with no overlapping read, appended bytes plus
\* remaining equal n after every consumer call and remaining stays within
\* 0..n; the consumer is only ever called with remaining > 0; and once it
\* has signalled completion (the call has returned) neither the per-read
\* state nor the stream's retained chunk is touched until the next call.
C19_CountConserved ==
  /\ [](rd.pc = "consume" => Conserved(r.buffer) /\ r.remaining > 0)
  /\ [](ReadReturned =>
          IF rd.status = "ok"
          THEN Conserved(rd.result) /\ r.remaining = 0
          ELSE Conserved(r.buffer) /\ r.remaining > 0)
  /\ [][rd.pc = "done" => UNCHANGED <<r, ibuf>>]_vars

\* A read(3) is in flight after its consumer has been called: it has
\* appended two bytes and waits for one more.
C19_Witness ==
  /\ rd.pc = "consume"
  /\ rd.n = 3
  /\ Len(r.buffer) = 2
  /\ r.remaining = 1

\* C20: as long as every call the caller has taken was a successful read,
\* the concatenation of the results is the first n1 + ... + nk bytes of the
\* stream as the peer sent it; between reads those bytes followed by what
\* the stream retains and what the source still holds are the whole stream;
\* and the result of the next successful read continues exactly there.
C20_ReadsConcatenate ==
  hist.clean =>
    /\ Len(hist.taken) = hist.asked
    /\ hist.taken = Take(hist.orig, hist.asked)
    /\ rd.pc = "idle" => hist.taken \o Undelivered = hist.orig
    /\ (rd.pc = "done" /\ rd.op = "read" /\ rd.status = "ok") =>
         /\ hist.taken \o rd.result = Take(hist.orig, hist.asked + rd.n)
         /\ hist.taken \o rd.result \o Undelivered = hist.orig

\* After one successful read(1) was taken a second read(1) has succeeded,
\* on a stream of three bytes of which the last is retained by the stream.
C20_Witness ==
  /\ hist.clean
  /\ hist.asked = 1
  /\ rd.pc = "done" /\ rd.op = "read" /\ rd.status = "ok" /\ rd.n = 1
  /\ Len(hist.orig) = 3
  /\ hist.orig[1] # hist.orig[2]
  /\ Len(ibuf) = 1
  /\ wire = <<>>

====
